---- MODULE Spec2Model ----
(***************************************************************************)
(* SmartNotes backend (src/backend/server.py): the session-authenticated   *)
(* recording API, the recording status state machine and the detached      *)
(* background generation task, over the three store collections users,     *)
(* sessions and recordings.                                                *)
(*                                                                         *)
(* Granularity.  Every `await db.<coll>.<op>(...)` of a handler is one     *)
(* step: the operation takes effect on the store atomically (one document  *)
(* operation), and the synchronous code up to the next await runs with it. *)
(* get_current_user (two reads of collections that are only ever appended  *)
(* to) runs in the same step as the first store operation of the handler   *)
(* it guards.  Handlers with several store operations (get_profile,        *)
(* process_recording, update_recording) and the background task occupy a   *)
(* coroutine slot between their steps, so other requests interleave.       *)
(***************************************************************************)
EXTENDS Integers, Sequences, FiniteSets, TLC

\* ------------------------------------------------------------------ bounds
MaxTime == 336     \* the clock is observed up to this hour
MaxSlots == 2      \* request coroutines suspended at an await at one time
MaxUsers == 2      \* Spec: user documents ever inserted
MaxSessions == 2   \* Spec: session documents ever inserted
MaxRecs == 1       \* Spec, SpecOwn: recordings ever created
LifeRecs == 1      \* SpecLife: recordings ever created
MaxTasks == 1      \* Spec, SpecOwn: background tasks ever dispatched
LifeTasks == 2     \* SpecLife: background tasks ever dispatched
LangTasks == 2     \* SpecLang: background tasks ever dispatched
DelRecs == 2       \* SpecDel: recordings ever created
DelTasks == 1      \* SpecDel: background tasks ever dispatched
ListRecs == 102    \* SpecList: recordings ever created
ListTime == 120    \* SpecList: the clock is observed up to this hour
TieRecs == 2       \* SpecList: the first recordings, which may share an hour
OtherRecs == 1     \* SpecList: the first recordings, which may be user 2's
ListDeletes == 1   \* SpecList: the first recordings, which may be deleted
AuthSessions == 3
GenRecs == 2
GenTasks == 2

\* --------------------------------------------------------------- constants
SessionDays == 7           \* timedelta(days=7)
HoursPerDay == 24
SessionLife == SessionDays * HoursPerDay   \* the timedelta, in hours
None == "None"             \* Python None (Optional[str] fields)
NoId == 0                  \* stands for "no document" where an id is expected
DemoEmail == "demo@smartnotes.com"
DefaultLanguage == "en"    \* User.preferred_language, TranscriptionRequest.language
DefaultType == "full"      \* TranscriptionRequest.type
Absent == "<absent>"       \* a key the request body does not carry

supported_languages == {"en", "it", "es", "fr", "de"}
\* mutant: status among the fields an update may set
allowed_fields_and_status == {"title", "tags", "notes", "status"}
\* mutant: transcript among the fields an update may set
allowed_fields_and_transcript == {"title", "tags", "notes", "transcript"}
\* mutant: the owner among the fields an update may set
allowed_fields_and_owner == {"title", "tags", "notes", "user_id"}
allowed_fields == {"title", "tags", "notes"}

\* language_content: the texts are opaque; each (language, mode) entry is
\* named by its keys
language_content ==
  [l \in supported_languages |->
     [full |-> l \o ":full", summary |-> l \o ":summary",
      chapters |-> l \o ":chapters"]]

\* ---------------------------------------------------------------- inputs
Tokens == {"t1", "t2"}
Slots == 1..MaxSlots
RecIds == 1..MaxRecs
Modes == {"full", "summary", "chapters"}
\* RecordingCreate bodies
CreateBodies ==
  {[title |-> "Lecture 1", audio_data |-> "a1", tags |-> << >>, notes |-> "",
    duration |-> None],
   [title |-> "Lecture 2", audio_data |-> "a2", tags |-> <<"x">>,
    notes |-> "n", duration |-> "60.0"]}
\* TranscriptionRequest bodies: the type and language keys
TypeInputs == {Absent, "full", "summary", "chapters", "bogus"}
LangInputs == {Absent, "", "it", "xx"}
\* update_recording bodies (arbitrary maps)
UpdateBodies ==
  {[title |-> "New", notes |-> "m", tags |-> <<"y">>],
   [status |-> "uploaded", transcript |-> "forged", user_id |-> NoId],
   [notes |-> "m", status |-> "uploaded"]}
\* update_user_language bodies: the language key
LanguageBodies == {Absent, "it", "xx"}
\* User.discount_amount values, in cents
Discounts == {-50, 0, 50, 100, 101, 150, 500}

VARIABLES
  now,         \* datetime.utcnow(), in hours
  users,       \* db.users: sequence of documents, in insertion order
  sessions,    \* db.sessions: sequence of documents, in insertion order
  recordings,  \* db.recordings: id -> document
  recCount,    \* number of Recording ids drawn so far (uuid4: never reused)
  tasks,       \* the tasks asyncio.create_task has created, in creation order
  coro,        \* slot -> the request coroutine suspended there, or idle
  resp         \* the HTTP response produced by the step just taken, if any

vars == <<now, users, sessions, recordings, recCount, tasks, coro, resp>>
store == <<users, sessions, recordings, recCount>>

\* ------------------------------------------------------------- documents
\* class User: a new document as User(**user_data).dict() stores it.  The
\* referral code is a second uuid drawn for the user, named here by the id;
\* amounts are in cents.
User(id, created_at) ==
  [id |-> id, email |-> DemoEmail, name |-> "Demo User",
   subscription_status |-> "trial", referral_code |-> id,
   discount_amount |-> 0, preferred_language |-> DefaultLanguage,
   created_at |-> created_at]

\* class Session (its own id, a uuid nothing reads, is left out)
Session(user_id, token, expires_at, created_at) ==
  [user_id |-> user_id, session_token |-> token, expires_at |-> expires_at,
   created_at |-> created_at]

\* mutant: the status default of the class replaced
RecordingProcessing(id, user_id, data, status, created_at) ==
  [id |-> id, user_id |-> user_id, title |-> data.title,
   audio_data |-> data.audio_data, transcript |-> None, summary |-> None,
   tags |-> data.tags, notes |-> data.notes, duration |-> data.duration,
   status |-> "processing", created_at |-> created_at]

\* class Recording: transcript and summary default to None
Recording(id, user_id, data, status, created_at) ==
  [id |-> id, user_id |-> user_id, title |-> data.title,
   audio_data |-> data.audio_data, transcript |-> None, summary |-> None,
   tags |-> data.tags, notes |-> data.notes, duration |-> data.duration,
   status |-> status, created_at |-> created_at]

NoUser == [id |-> NoId]
Idle == [pc |-> "idle"]
NoResp == [op |-> "none", code |-> 0]

\* ------------------------------------------------------------ store reads
\* find_one: of the documents that match, the first in natural (insertion)
\* order, as an index into the collection; 0 when none matches.
FirstIndex(matching) ==
  IF matching = {} THEN 0
  ELSE CHOOSE i \in matching : \A j \in matching : i <= j

\* db.sessions.find_one({"session_token": token})
FindSession(token) ==
  FirstIndex({i \in 1..Len(sessions) : sessions[i].session_token = token})

\* db.users.find_one({"id": id})
FindUserById(id) ==
  FirstIndex({i \in 1..Len(users) : users[i].id = id})

\* db.users.find_one({"email": email})
FindUserByEmail(email) ==
  FirstIndex({i \in 1..Len(users) : users[i].email = email})

\* mutant: the filter without the owner
OwnedByAnyone(rid, uid) == rid \in DOMAIN recordings

\* db.recordings.find_one({"id": rid, "user_id": uid})
OwnedBy(rid, uid) ==
  rid \in DOMAIN recordings /\ recordings[rid].user_id = uid

\* ------------------------------------------------------- get_current_user
\* mutant: expired from the expiry on
SessionExpiredFromExpiry(s) == s.expires_at <= now

SessionExpired(s) == s.expires_at < now

\* mutant: the expiry is not looked at
AuthDetailNoExpiry(token) ==
  LET i == FindSession(token) IN
  IF i = 0 THEN "Invalid session token"
  ELSE IF FindUserById(sessions[i].user_id) = 0 THEN "User not found"
  ELSE "ok"

\* the 401 detail get_current_user raises for the token, or "ok"
AuthDetail(token) ==
  LET i == FindSession(token) IN
  IF i = 0 THEN "Invalid session token"
  ELSE IF SessionExpired(sessions[i]) THEN "Session expired"
  ELSE IF FindUserById(sessions[i].user_id) = 0 THEN "User not found"
  ELSE "ok"

Authorized(token) == AuthDetail(token) = "ok"

\* the User get_current_user returns (read when Authorized)
CurrentUser(token) ==
  IF Authorized(token)
  THEN users[FindUserById(sessions[FindSession(token)].user_id)]
  ELSE NoUser

Unauthorized(op, token) ==
  [op |-> op, token |-> token, code |-> 401, detail |-> AuthDetail(token)]

\* ------------------------------------------------------------------ slots
FreeSlot == CHOOSE s \in Slots : coro[s].pc = "idle" /\
                                 \A t \in Slots : coro[t].pc = "idle" => s <= t
HasFreeSlot == \E s \in Slots : coro[s].pc = "idle"

\* coroutines of an operation that are suspended at an await
Suspended(op) == {s \in Slots : coro[s].pc # "idle" /\ coro[s].op = op}

Init ==
  /\ now = 0
  /\ users = << >>
  /\ sessions = << >>
  /\ recordings = << >>
  /\ recCount = 0
  /\ tasks = << >>
  /\ coro = [s \in Slots |-> Idle]
  /\ resp = NoResp

\* ------------------------------------------------------------------ clock
\* Time passes between steps.  The clock is read every SessionDays days,
\* which puts now before, at and after the expiry of a session.
Tick ==
  /\ now + SessionLife <= MaxTime
  /\ now' = now + SessionLife
  /\ resp' = NoResp
  /\ UNCHANGED <<store, tasks, coro>>

\* An hour passes.
TickHour ==
  /\ now' = now + 1
  /\ resp' = NoResp
  /\ UNCHANGED <<store, tasks, coro>>

\* ------------------------------------------------- GET /auth/profile
\* the 401 without the X-Session-Id header, else up to
\* `existing_user = await db.users.find_one({"email": ...})`
GetProfileFind(token) ==
  IF token = Absent
  THEN /\ resp' = [op |-> "auth_profile", token |-> token, code |-> 401,
                   detail |-> "Session ID required"]
       /\ UNCHANGED <<now, store, tasks, coro>>
  ELSE /\ HasFreeSlot
       /\ LET i == FindUserByEmail(DemoEmail) IN
          coro' = [coro EXCEPT ![FreeSlot] =
                     [pc |-> IF i = 0 THEN "insert_user" ELSE "insert_session",
                      op |-> "auth_profile", token |-> token,
                      user_id |-> IF i = 0 THEN NoId ELSE users[i].id,
                      fresh |-> i = 0]]
       /\ resp' = NoResp
       /\ UNCHANGED <<now, store, tasks>>

\* `user = User(**user_data); await db.users.insert_one(user.dict())`
GetProfileInsertUser(s) ==
  /\ coro[s].pc = "insert_user"
  /\ LET id == Len(users) + 1 IN
     /\ users' = Append(users, User(id, now))
     /\ coro' = [coro EXCEPT ![s].pc = "insert_session", ![s].user_id = id]
  /\ resp' = NoResp
  /\ UNCHANGED <<now, sessions, recordings, recCount, tasks>>

\* mutant: the session is bound to the id of user_data, the one returned
GetProfileInsertSessionOwnId(s) ==
  /\ coro[s].pc = "insert_session"
  /\ sessions' = Append(sessions,
       Session(IF coro[s].fresh THEN coro[s].user_id ELSE NoId,
               coro[s].token, now + SessionLife, now))
  /\ resp' = [op |-> "auth_profile", token |-> coro[s].token, code |-> 200,
              id |-> IF coro[s].fresh THEN coro[s].user_id ELSE NoId,
              user_id |-> coro[s].user_id]
  /\ coro' = [coro EXCEPT ![s] = Idle]
  /\ UNCHANGED <<now, users, recordings, recCount, tasks>>

\* `session = Session(...); await db.sessions.insert_one(...); return user_data`
\* user_data["id"] is a uuid drawn by this call: the stored user's id only
\* when this call inserted the user.
GetProfileInsertSession(s) ==
  /\ coro[s].pc = "insert_session"
  /\ sessions' = Append(sessions,
       Session(coro[s].user_id, coro[s].token, now + SessionLife, now))
  /\ resp' = [op |-> "auth_profile", token |-> coro[s].token, code |-> 200,
              id |-> IF coro[s].fresh THEN coro[s].user_id ELSE NoId,
              user_id |-> coro[s].user_id]
  /\ coro' = [coro EXCEPT ![s] = Idle]
  /\ UNCHANGED <<now, users, recordings, recCount, tasks>>

\* ------------------------------------------------------ POST /recordings
create_recording(token, data) ==
  IF ~Authorized(token)
  THEN /\ resp' = Unauthorized("create", token)
       /\ UNCHANGED <<now, store, tasks, coro>>
  ELSE /\ LET id == recCount + 1
              rec == Recording(id, CurrentUser(token).id, data, "uploaded", now)
          IN /\ recordings' = [r \in DOMAIN recordings \cup {id} |->
                                 IF r = id THEN rec ELSE recordings[r]]
             /\ resp' = [op |-> "create", token |-> token, code |-> 200,
                         body |-> rec]
       /\ recCount' = recCount + 1
       /\ UNCHANGED <<now, users, sessions, tasks, coro>>

\* ------------------------------------------------------- GET /recordings
PageSize == 100

\* the orders a cursor may return documents of equal created_at in
Orders(group) ==
  {order \in [1..Cardinality(group) -> group] :
     \A i, j \in 1..Cardinality(group) : i # j => order[i] # order[j]}

RECURSIVE Sorted(_, _, _)
\* .sort("created_at", -1): the ids of the documents created from lo to hi,
\* newest first, one sequence per order of the documents of equal created_at
Sorted(docs, lo, hi) ==
  IF docs = {} THEN {<< >>}
  ELSE IF lo = hi THEN Orders(docs)
  ELSE LET mid == (lo + hi) \div 2
           late == {r \in docs : recordings[r].created_at > mid}
       IN {later \o earlier : later \in Sorted(late, mid + 1, hi),
                              earlier \in Sorted(docs \ late, lo, mid)}

\* mutant: sorted in ascending order
PagesOldestFirst(docs, n) ==
  {[i \in 1..(IF Len(all) < n THEN Len(all) ELSE n) |-> all[Len(all) + 1 - i]] :
     all \in Sorted(docs, 0, now)}

\* .sort("created_at", -1).to_list(n): the sorted ids cut to n (every
\* created_at is a reading of the clock between 0 and now)
Pages(docs, n) ==
  {SubSeq(all, 1, IF Len(all) < n THEN Len(all) ELSE n) :
     all \in Sorted(docs, 0, now)}

get_recordings(token) ==
  /\ IF ~Authorized(token)
     THEN resp' = Unauthorized("list", token)
     ELSE LET mine == {r \in DOMAIN recordings :
                         recordings[r].user_id = CurrentUser(token).id}
          IN \E page \in Pages(mine, PageSize) :
               resp' = [op |-> "list", token |-> token, code |-> 200,
                        body |-> [i \in 1..Len(page) |-> recordings[page[i]]]]
  /\ UNCHANGED <<now, store, tasks, coro>>

\* ------------------------------------------------- GET /recordings/{id}
get_recording(token, rid) ==
  /\ resp' = IF ~Authorized(token) THEN Unauthorized("get", token)
             ELSE IF ~OwnedBy(rid, CurrentUser(token).id)
             THEN [op |-> "get", token |-> token, rid |-> rid, code |-> 404]
             ELSE [op |-> "get", token |-> token, rid |-> rid, code |-> 200,
                   body |-> recordings[rid]]
  /\ UNCHANGED <<now, store, tasks, coro>>

\* ---------------------------------------------- DELETE /recordings/{id}
\* mutant: delete_many on the owner alone
delete_recordingAll(token, rid) ==
  IF ~Authorized(token)
  THEN /\ resp' = Unauthorized("delete", token)
       /\ UNCHANGED <<now, store, tasks, coro>>
  ELSE IF ~OwnedBy(rid, CurrentUser(token).id)
  THEN /\ resp' = [op |-> "delete", token |-> token, rid |-> rid, code |-> 404]
       /\ UNCHANGED <<now, store, tasks, coro>>
  ELSE /\ recordings' =
            [r \in {q \in DOMAIN recordings :
                      recordings[q].user_id # CurrentUser(token).id}
               |-> recordings[r]]
       /\ resp' = [op |-> "delete", token |-> token, rid |-> rid, code |-> 200]
       /\ UNCHANGED <<now, users, sessions, recCount, tasks, coro>>

delete_recording(token, rid) ==
  IF ~Authorized(token)
  THEN /\ resp' = Unauthorized("delete", token)
       /\ UNCHANGED <<now, store, tasks, coro>>
  ELSE IF ~OwnedBy(rid, CurrentUser(token).id)
  THEN /\ resp' = [op |-> "delete", token |-> token, rid |-> rid, code |-> 404]
       /\ UNCHANGED <<now, store, tasks, coro>>
  ELSE /\ recordings' = [r \in DOMAIN recordings \ {rid} |-> recordings[r]]
       /\ resp' = [op |-> "delete", token |-> token, rid |-> rid, code |-> 200]
       /\ UNCHANGED <<now, users, sessions, recCount, tasks, coro>>

\* -------------------------------------------------- store write helper
\* mutant: the document is replaced by the given fields (its id and owner
\* kept), not updated with $set
UpdateOneReplace(rid, fields) ==
  IF rid \in DOMAIN recordings
  THEN [recordings EXCEPT ![rid] =
          [f \in DOMAIN recordings[rid] \cup DOMAIN fields |->
             IF f \in DOMAIN fields THEN fields[f]
             ELSE IF f \in {"id", "user_id"} THEN recordings[rid][f]
             ELSE None]]
  ELSE recordings

\* mutant: the write is an upsert: a document that is gone is inserted with
\* the fields given
UpdateOneUpsert(rid, fields) ==
  [r \in DOMAIN recordings \cup {rid} |->
     IF r # rid THEN recordings[r]
     ELSE IF rid \in DOMAIN recordings
     THEN [f \in DOMAIN recordings[rid] \cup DOMAIN fields |->
             IF f \in DOMAIN fields THEN fields[f] ELSE recordings[rid][f]]
     ELSE [f \in DOMAIN fields \cup {"id"} |->
             IF f \in DOMAIN fields THEN fields[f] ELSE rid]]

\* mutant: the fields are set on every document (update_many without the
\* id in the filter)
UpdateOneMany(rid, fields) ==
  [r \in DOMAIN recordings |->
     [f \in DOMAIN recordings[r] \cup DOMAIN fields |->
        IF f \in DOMAIN fields THEN fields[f] ELSE recordings[r][f]]]

\* update_one({"id": rid}, {"$set": fields}): sets the fields on the
\* document with that id; matches nothing, and changes nothing, when the
\* document is gone
UpdateOne(rid, fields) ==
  IF rid \in DOMAIN recordings
  THEN [recordings EXCEPT ![rid] =
          [f \in DOMAIN recordings[rid] \cup DOMAIN fields |->
             IF f \in DOMAIN fields THEN fields[f] ELSE recordings[rid][f]]]
  ELSE recordings

\* ---------------------------------------- POST /recordings/{id}/process
\* TranscriptionRequest(**body): the defaults of the type and language fields
RequestType(type) == IF type = Absent THEN DefaultType ELSE type
RequestLanguage(language) ==
  IF language = Absent THEN DefaultLanguage ELSE language

\* up to `recording = await db.recordings.find_one(...)` and the 404
ProcessFind(token, rid, type, language) ==
  IF ~Authorized(token)
  THEN /\ resp' = Unauthorized("process", token)
       /\ UNCHANGED <<now, store, tasks, coro>>
  ELSE IF ~OwnedBy(rid, CurrentUser(token).id)
  THEN /\ resp' = [op |-> "process", token |-> token, rid |-> rid, code |-> 404]
       /\ UNCHANGED <<now, store, tasks, coro>>
  ELSE /\ HasFreeSlot
       /\ coro' = [coro EXCEPT ![FreeSlot] =
            [pc |-> "set_processing", op |-> "process", token |-> token,
             rid |-> rid, type |-> RequestType(type),
             language |-> RequestLanguage(language),
             preferred_language |-> CurrentUser(token).preferred_language,
             recording |-> recordings[rid]]]
       /\ resp' = NoResp
       /\ UNCHANGED <<now, store, tasks>>

\* mutant: the status is not written before the task is created
ProcessSetStatusSkipped(s) ==
  /\ coro[s].pc = "set_processing"
  /\ coro' = [coro EXCEPT ![s].pc = "dispatch"]
  /\ resp' = NoResp
  /\ UNCHANGED <<now, store, tasks>>

\* `await db.recordings.update_one({"id": ...}, {"$set": {"status": "processing"}})`
ProcessSetStatus(s) ==
  /\ coro[s].pc = "set_processing"
  /\ recordings' = UpdateOne(coro[s].rid, [status |-> "processing"])
  /\ coro' = [coro EXCEPT ![s].pc = "dispatch"]
  /\ resp' = NoResp
  /\ UNCHANGED <<now, users, sessions, recCount, tasks>>

\* `language = request.language if request.language else ...preferred_language`
ChosenLanguage(language, preferred_language) ==
  IF language # "" THEN language ELSE preferred_language

\* mutant: no task is created while one is still running for the recording
ProcessDispatchOnce(s) ==
  /\ coro[s].pc = "dispatch"
  /\ LET language == ChosenLanguage(coro[s].language, coro[s].preferred_language)
         running == {k \in 1..Len(tasks) : tasks[k].pc # "done" /\
                       tasks[k].recording_id = coro[s].rid}
     IN /\ tasks' = IF running # {} THEN tasks ELSE Append(tasks,
              [pc |-> "created", recording_id |-> coro[s].rid,
               audio_data |-> coro[s].recording.audio_data,
               processing_type |-> coro[s].type, language |-> language,
               found |-> [transcript |-> coro[s].recording.transcript,
                          summary |-> coro[s].recording.summary,
                          status |-> coro[s].recording.status],
               rivals |-> {}, wrote |-> << >>, texts |-> << >>])
        /\ resp' = [op |-> "process", token |-> coro[s].token, code |-> 200,
                    recording_id |-> coro[s].rid, status |-> "processing",
                    type |-> coro[s].type, language |-> language]
  /\ coro' = [coro EXCEPT ![s] = Idle]
  /\ UNCHANGED <<now, store>>

\* asyncio.create_task(process_audio_with_ai(...)) and the response
ProcessDispatch(s) ==
  /\ coro[s].pc = "dispatch"
  /\ LET language == ChosenLanguage(coro[s].language, coro[s].preferred_language)
     IN /\ tasks' = Append(tasks,
              [pc |-> "created", recording_id |-> coro[s].rid,
               audio_data |-> coro[s].recording.audio_data,
               processing_type |-> coro[s].type, language |-> language,
               \* history, not read by the program: the document the request
               \* found, the tasks still running when this one was created,
               \* and the statuses and the texts this task has written
               found |-> [transcript |-> coro[s].recording.transcript,
                          summary |-> coro[s].recording.summary,
                          status |-> coro[s].recording.status],
               rivals |-> {k \in 1..Len(tasks) : tasks[k].pc # "done" /\
                             tasks[k].recording_id = coro[s].rid},
               wrote |-> << >>, texts |-> << >>])
        /\ resp' = [op |-> "process", token |-> coro[s].token, code |-> 200,
                    recording_id |-> coro[s].rid, status |-> "processing",
                    type |-> coro[s].type, language |-> language]
  /\ coro' = [coro EXCEPT ![s] = Idle]
  /\ UNCHANGED <<now, store>>

\* ------------------------------------------------ process_audio_with_ai
\* mutant: the table is read for English whatever the language
ContentEnglishOnly(language) == language_content["en"]

\* mutant: the fallback entry is not the English one
ContentFallbackItalian(language) ==
  IF language \in DOMAIN language_content
  THEN language_content[language]
  ELSE language_content["it"]

\* `content = language_content.get(language, language_content["en"])`
Content(language) ==
  IF language \in DOMAIN language_content
  THEN language_content[language]
  ELSE language_content["en"]

\* mutant: the chapters branch missing
CompletedFieldsNoChapters(processing_type, language) ==
  IF processing_type = "full"
  THEN [transcript |-> Content(language).full, status |-> "completed"]
  ELSE IF processing_type = "summary"
  THEN [summary |-> Content(language).summary, status |-> "completed"]
  ELSE << >>

\* mutant: each branch sets both derived fields
CompletedFieldsBoth(processing_type, language) ==
  IF processing_type = "full"
  THEN [transcript |-> Content(language).full, summary |-> None,
        status |-> "completed"]
  ELSE IF processing_type = "summary"
  THEN [summary |-> Content(language).summary, transcript |-> None,
        status |-> "completed"]
  ELSE IF processing_type = "chapters"
  THEN [summary |-> Content(language).chapters, transcript |-> None,
        status |-> "completed"]
  ELSE << >>

\* mutant: each branch also sets a title for the processed recording
CompletedFieldsRetitle(processing_type, language) ==
  IF processing_type = "full"
  THEN [transcript |-> Content(language).full, status |-> "completed",
        title |-> "Processed"]
  ELSE IF processing_type = "summary"
  THEN [summary |-> Content(language).summary, status |-> "completed",
        title |-> "Processed"]
  ELSE IF processing_type = "chapters"
  THEN [summary |-> Content(language).chapters, status |-> "completed",
        title |-> "Processed"]
  ELSE << >>

\* mutant: the branches set the status and no text
CompletedFieldsStatusOnly(processing_type, language) ==
  IF processing_type \in {"full", "summary", "chapters"}
  THEN [status |-> "completed"]
  ELSE << >>

\* the fields the try block sets for a processing type; none for a type
\* that is none of the three (no branch of the if/elif chain is taken)
CompletedFields(processing_type, language) ==
  IF processing_type = "full"
  THEN [transcript |-> Content(language).full, status |-> "completed"]
  ELSE IF processing_type = "summary"
  THEN [summary |-> Content(language).summary, status |-> "completed"]
  ELSE IF processing_type = "chapters"
  THEN [summary |-> Content(language).chapters, status |-> "completed"]
  ELSE << >>

\* mutant: the text written is the audio payload, not the table's entry
TaskRunFromAudio(k) ==
  /\ tasks[k].pc = "created"
  /\ LET table == CompletedFields(tasks[k].processing_type, tasks[k].language)
         fields == [f \in DOMAIN table |->
                      IF f = "status" THEN table[f] ELSE tasks[k].audio_data]
     IN IF DOMAIN fields = {}
        THEN /\ tasks' = [tasks EXCEPT ![k].pc = "done"]
             /\ UNCHANGED recordings
        ELSE /\ recordings' = UpdateOne(tasks[k].recording_id, fields)
             /\ tasks' = [tasks EXCEPT
                            ![k].pc = "done",
                            ![k].wrote = Append(@, fields.status),
                            ![k].texts = [f \in DOMAIN fields \ {"status"} |->
                                            fields[f]]]
  /\ resp' = NoResp
  /\ UNCHANGED <<now, users, sessions, recCount, coro>>

\* the try block: the one update_one of the branch taken
TaskRun(k) ==
  /\ tasks[k].pc = "created"
  /\ LET fields == CompletedFields(tasks[k].processing_type, tasks[k].language)
     IN IF DOMAIN fields = {}
        THEN /\ tasks' = [tasks EXCEPT ![k].pc = "done"]
             /\ UNCHANGED recordings
        ELSE /\ recordings' = UpdateOne(tasks[k].recording_id, fields)
             /\ tasks' = [tasks EXCEPT
                            ![k].pc = "done",
                            ![k].wrote = Append(@, fields.status),
                            ![k].texts = [f \in DOMAIN fields \ {"status"} |->
                                            fields[f]]]
  /\ resp' = NoResp
  /\ UNCHANGED <<now, users, sessions, recCount, coro>>

\* the try block's update_one raises (the store fails the write): control
\* passes to `except Exception`.  The write of the except block is taken to
\* succeed; were it to raise too, the exception would end the task.
TaskRaise(k) ==
  /\ tasks[k].pc = "created"
  /\ DOMAIN CompletedFields(tasks[k].processing_type, tasks[k].language) # {}
  /\ tasks' = [tasks EXCEPT ![k].pc = "except"]
  /\ resp' = NoResp
  /\ UNCHANGED <<now, store, coro>>

\* mutant: the except block also clears the derived texts
TaskExceptClears(k) ==
  /\ tasks[k].pc = "except"
  /\ recordings' = UpdateOne(tasks[k].recording_id,
         [status |-> "failed", transcript |-> None, summary |-> None])
  /\ tasks' = [tasks EXCEPT ![k].pc = "done", ![k].wrote = Append(@, "failed")]
  /\ resp' = NoResp
  /\ UNCHANGED <<now, users, sessions, recCount, coro>>

\* mutant: the except block puts the recording back to uploaded
TaskExceptReset(k) ==
  /\ tasks[k].pc = "except"
  /\ recordings' = UpdateOne(tasks[k].recording_id, [status |-> "uploaded"])
  /\ tasks' = [tasks EXCEPT ![k].pc = "done", ![k].wrote = Append(@, "failed")]
  /\ resp' = NoResp
  /\ UNCHANGED <<now, users, sessions, recCount, coro>>

\* the except block: `update_one(..., {"$set": {"status": "failed"}})`
TaskExcept(k) ==
  /\ tasks[k].pc = "except"
  /\ recordings' = UpdateOne(tasks[k].recording_id, [status |-> "failed"])
  /\ tasks' = [tasks EXCEPT ![k].pc = "done", ![k].wrote = Append(@, "failed")]
  /\ resp' = NoResp
  /\ UNCHANGED <<now, users, sessions, recCount, coro>>

\* ------------------------------------------------- PUT /recordings/{id}
\* mutant: the body is not filtered
UpdateFieldsUnfiltered(update_data) == update_data

\* `{k: v for k, v in update_data.items() if k in allowed_fields}`
UpdateFields(update_data) ==
  [k \in DOMAIN update_data \cap allowed_fields |-> update_data[k]]

\* up to the find_one and the 404; an empty update_fields answers at once
UpdateFind(token, rid, update_data) ==
  IF ~Authorized(token)
  THEN /\ resp' = Unauthorized("update", token)
       /\ UNCHANGED <<now, store, tasks, coro>>
  ELSE IF ~OwnedBy(rid, CurrentUser(token).id)
  THEN /\ resp' = [op |-> "update", token |-> token, rid |-> rid, code |-> 404]
       /\ UNCHANGED <<now, store, tasks, coro>>
  ELSE IF DOMAIN UpdateFields(update_data) = {}
  THEN /\ resp' = [op |-> "update", token |-> token, rid |-> rid, code |-> 200,
                   update_data |-> update_data]
       /\ UNCHANGED <<now, store, tasks, coro>>
  ELSE /\ HasFreeSlot
       /\ coro' = [coro EXCEPT ![FreeSlot] =
            [pc |-> "set_fields", op |-> "update", token |-> token,
             rid |-> rid, update_data |-> update_data]]
       /\ resp' = NoResp
       /\ UNCHANGED <<now, store, tasks>>

\* mutant: one update_one per key, the answer given after the first
UpdateSetFirstKey(s) ==
  /\ coro[s].pc = "set_fields"
  /\ LET fields == UpdateFields(coro[s].update_data)
         f == CHOOSE k \in DOMAIN fields : TRUE
     IN recordings' = UpdateOne(coro[s].rid, [k \in {f} |-> fields[k]])
  /\ resp' = [op |-> "update", token |-> coro[s].token, rid |-> coro[s].rid,
              code |-> 200, update_data |-> coro[s].update_data]
  /\ coro' = [coro EXCEPT ![s] = Idle]
  /\ UNCHANGED <<now, users, sessions, recCount, tasks>>

\* `await db.recordings.update_one({"id": ...}, {"$set": update_fields})`
UpdateSet(s) ==
  /\ coro[s].pc = "set_fields"
  /\ recordings' = UpdateOne(coro[s].rid, UpdateFields(coro[s].update_data))
  /\ resp' = [op |-> "update", token |-> coro[s].token, rid |-> coro[s].rid,
              code |-> 200, update_data |-> coro[s].update_data]
  /\ coro' = [coro EXCEPT ![s] = Idle]
  /\ UNCHANGED <<now, users, sessions, recCount, tasks>>

\* ----------------------------------------------------- GET /user/profile
get_user_profile(token) ==
  /\ resp' = IF ~Authorized(token) THEN Unauthorized("user_profile", token)
             ELSE [op |-> "user_profile", token |-> token, code |-> 200,
                   body |-> CurrentUser(token)]
  /\ UNCHANGED <<now, store, tasks, coro>>

\* ---------------------------------------------------- PUT /user/language
\* mutant: an unsupported code falls back to the default
NewLanguageFallback(language) ==
  IF language \in supported_languages THEN language ELSE "en"

\* mutant: the key is read without a default
NewLanguageRequired(language) == language

\* `language_data.get("language", "en")`
NewLanguage(language) == IF language = Absent THEN "en" ELSE language

\* mutant: the language is stored in a new document, not set on the user's
update_user_languageInsert(token, language) ==
  IF ~Authorized(token)
  THEN /\ resp' = Unauthorized("language", token)
       /\ UNCHANGED <<now, store, tasks, coro>>
  ELSE IF NewLanguage(language) \notin supported_languages
  THEN /\ resp' = [op |-> "language", token |-> token, code |-> 400]
       /\ UNCHANGED <<now, store, tasks, coro>>
  ELSE /\ users' = Append(users,
            [CurrentUser(token) EXCEPT
               !.preferred_language = NewLanguage(language)])
       /\ resp' = [op |-> "language", token |-> token, code |-> 200,
                   language |-> NewLanguage(language)]
       /\ UNCHANGED <<now, sessions, recordings, recCount, tasks, coro>>

\* mutant: the new language also reaches the tasks that have not run yet
update_user_languageRetargets(token, language) ==
  IF ~Authorized(token)
  THEN /\ resp' = Unauthorized("language", token)
       /\ UNCHANGED <<now, store, tasks, coro>>
  ELSE IF NewLanguage(language) \notin supported_languages
  THEN /\ resp' = [op |-> "language", token |-> token, code |-> 400]
       /\ UNCHANGED <<now, store, tasks, coro>>
  ELSE /\ users' = [users EXCEPT
            ![FindUserById(CurrentUser(token).id)].preferred_language =
               NewLanguage(language)]
       /\ tasks' = [k \in 1..Len(tasks) |->
                      IF tasks[k].pc = "created"
                      THEN [tasks[k] EXCEPT !.language = NewLanguage(language)]
                      ELSE tasks[k]]
       /\ resp' = [op |-> "language", token |-> token, code |-> 200,
                   language |-> NewLanguage(language)]
       /\ UNCHANGED <<now, sessions, recordings, recCount, coro>>

\* mutant: the language is stored without the check against the list
update_user_languageUnchecked(token, language) ==
  IF ~Authorized(token)
  THEN /\ resp' = Unauthorized("language", token)
       /\ UNCHANGED <<now, store, tasks, coro>>
  ELSE /\ users' = [users EXCEPT
            ![FindUserById(CurrentUser(token).id)].preferred_language =
               NewLanguage(language)]
       /\ resp' = [op |-> "language", token |-> token, code |-> 200,
                   language |-> NewLanguage(language)]
       /\ UNCHANGED <<now, sessions, recordings, recCount, tasks, coro>>

update_user_language(token, language) ==
  IF ~Authorized(token)
  THEN /\ resp' = Unauthorized("language", token)
       /\ UNCHANGED <<now, store, tasks, coro>>
  ELSE IF NewLanguage(language) \notin supported_languages
  THEN /\ resp' = [op |-> "language", token |-> token, code |-> 400]
       /\ UNCHANGED <<now, store, tasks, coro>>
  ELSE /\ users' = [users EXCEPT
            ![FindUserById(CurrentUser(token).id)].preferred_language =
               NewLanguage(language)]
       /\ resp' = [op |-> "language", token |-> token, code |-> 200,
                   language |-> NewLanguage(language)]
       /\ UNCHANGED <<now, sessions, recordings, recCount, tasks, coro>>

\* ---------------------------------------------------- GET /user/referral
\* amounts in cents: 2.0 and 1.0
BaseCost == 200
FloorCost == 100
\* mutant: no floor
MonthlyCostNoFloor(discount_amount) == BaseCost - discount_amount

\* `max(2.0 - current_user.discount_amount, 1.0)`
MonthlyCost(discount_amount) ==
  IF BaseCost - discount_amount > FloorCost
  THEN BaseCost - discount_amount ELSE FloorCost

get_referral_info(token) ==
  /\ resp' = IF ~Authorized(token) THEN Unauthorized("referral", token)
             ELSE [op |-> "referral", token |-> token, code |-> 200,
                   discount_amount |-> CurrentUser(token).discount_amount,
                   monthly_cost |-> MonthlyCost(CurrentUser(token).discount_amount)]
  /\ UNCHANGED <<now, store, tasks, coro>>

\* ------------------------------------------------------------------- next
\* what a specification still admits: requests that would take the model
\* past its bounds are not issued
AllIdle == \A s \in Slots : coro[s].pc = "idle"
MayCreate(token) == Authorized(token) => recCount < MaxRecs
Accepted(token, rid) ==
  Authorized(token) /\ OwnedBy(rid, CurrentUser(token).id)
MayProcess(token, rid, max) ==
  Accepted(token, rid) =>
    Len(tasks) + Cardinality(Suspended("process")) < max
MayGetProfile ==
  /\ Len(sessions) + Cardinality(Suspended("auth_profile")) < MaxSessions
  /\ \/ FindUserByEmail(DemoEmail) # 0
     \/ Len(users) + Cardinality({s \in Slots : coro[s].pc = "insert_user"})
          < MaxUsers

TaskStep(k) == TaskRun(k) \/ TaskRaise(k) \/ TaskExcept(k)

\* Spec: the whole API from the empty store, with the clock; one request
\* at a time (a request is issued when no coroutine is suspended), the
\* background task running beside them
SeqBodies == {[title |-> "New", status |-> "uploaded"]}

Next ==
  \/ Tick
  \/ \E token \in Tokens \cup {Absent} :
        AllIdle /\ MayGetProfile /\ GetProfileFind(token)
  \/ \E s \in Slots : GetProfileInsertUser(s)
  \/ \E s \in Slots : GetProfileInsertSession(s)
  \/ \E token \in Tokens, data \in CreateBodies :
        data.title = "Lecture 1" /\ MayCreate(token) /\ create_recording(token, data)
  \/ \E token \in Tokens : get_recordings(token)
  \/ \E token \in Tokens, rid \in RecIds : get_recording(token, rid)
  \/ \E token \in Tokens, rid \in RecIds : delete_recording(token, rid)
  \/ \E token \in Tokens, rid \in RecIds :
        AllIdle /\ MayProcess(token, rid, MaxTasks)
                /\ ProcessFind(token, rid, "full", Absent)
  \/ \E s \in Slots : ProcessSetStatus(s)
  \/ \E s \in Slots : ProcessDispatch(s)
  \/ \E k \in 1..Len(tasks) : TaskRun(k)
  \/ \E token \in Tokens, rid \in RecIds, update_data \in SeqBodies :
        AllIdle /\ UpdateFind(token, rid, update_data)
  \/ \E s \in Slots : UpdateSet(s)
  \/ \E token \in Tokens : get_user_profile(token)
  \/ \E token \in Tokens, language \in LanguageBodies :
        update_user_language(token, language)
  \/ \E token \in Tokens : get_referral_info(token)

Spec == Init /\ [][Next]_vars

\* SpecOwn: two users, each with a session; the store GET /auth/profile
\* leaves when two first calls overlap (both find no user, both insert one)
InitOwn ==
  /\ now = 0
  /\ users = <<User(1, 0), User(2, 0)>>
  /\ sessions = <<Session(1, "t1", SessionLife, 0),
                  Session(2, "t2", SessionLife, 0)>>
  /\ recordings = << >>
  /\ recCount = 0
  /\ tasks = << >>
  /\ coro = [s \in Slots |-> Idle]
  /\ resp = NoResp

NextOwn ==
  \/ \E token \in Tokens, data \in CreateBodies :
        MayCreate(token) /\ create_recording(token, data)
  \/ \E token \in Tokens, rid \in RecIds : get_recording(token, rid)
  \/ \E token \in Tokens, rid \in RecIds : delete_recording(token, rid)
  \/ \E token \in Tokens, rid \in RecIds, type \in {"full", "summary"} :
        MayProcess(token, rid, MaxTasks) /\ ProcessFind(token, rid, type, Absent)
  \/ \E s \in Slots : ProcessSetStatus(s)
  \/ \E s \in Slots : ProcessDispatch(s)
  \/ \E k \in 1..Len(tasks) : TaskStep(k)
  \/ \E token \in Tokens, rid \in RecIds, update_data \in SeqBodies :
        UpdateFind(token, rid, update_data)
  \/ \E s \in Slots : UpdateSet(s)

SpecOwn == InitOwn /\ [][NextOwn]_vars

\* SpecLife: one user with a session; the life of a recording under
\* overlapping process, update and delete requests and background tasks
InitLife ==
  /\ now = 0
  /\ users = <<User(1, 0)>>
  /\ sessions = <<Session(1, "t1", SessionLife, 0)>>
  /\ recordings = << >>
  /\ recCount = 0
  /\ tasks = << >>
  /\ coro = [s \in Slots |-> Idle]
  /\ resp = NoResp

NextLife ==
  \/ \E data \in CreateBodies :
        /\ data.title = "Lecture 1"
        /\ recCount < LifeRecs
        /\ create_recording("t1", data)
  \/ \E rid \in 1..LifeRecs : delete_recording("t1", rid)
  \/ \E token \in Tokens, rid \in 1..LifeRecs, type \in TypeInputs :
        MayProcess(token, rid, LifeTasks) /\ ProcessFind(token, rid, type, Absent)
  \/ \E s \in Slots : ProcessSetStatus(s)
  \/ \E s \in Slots : ProcessDispatch(s)
  \/ \E k \in 1..Len(tasks) : TaskRun(k)
  \/ \E k \in 1..Len(tasks) : TaskRaise(k)
  \/ \E k \in 1..Len(tasks) : TaskExcept(k)
  \/ \E rid \in 1..LifeRecs, update_data \in UpdateBodies :
        UpdateFind("t1", rid, update_data)
  \/ \E s \in Slots : UpdateSet(s)

SpecLife == InitLife /\ [][NextLife]_vars

\* the event loop runs every task it has created, and the store answers
FairLife ==
  SpecLife /\ \A k \in 1..LifeTasks : WF_vars(k <= Len(tasks) /\ TaskStep(k))

\* SpecLang: one user with a session; process requests in every mode and
\* language, the language key sent, left out or empty, with the caller's
\* preferred language changing beside them.  The store accepts every write.
NextLang ==
  \/ \E data \in CreateBodies :
        /\ data.title = "Lecture 1"
        /\ recCount < LifeRecs
        /\ create_recording("t1", data)
  \/ update_user_language("t1", "it")
  \/ \E rid \in 1..LifeRecs, type \in Modes,
        language \in LangInputs \cup supported_languages :
        MayProcess("t1", rid, LangTasks) /\ ProcessFind("t1", rid, type, language)
  \/ \E s \in Slots : ProcessSetStatus(s)
  \/ \E s \in Slots : ProcessDispatch(s)
  \/ \E k \in 1..Len(tasks) : TaskRun(k)

SpecLang == InitLife /\ [][NextLang]_vars

\* SpecUser: the user routes, for one user with a session and a second
\* token no session carries.  No route of the program writes
\* discount_amount; the user document holds any of Discounts.
InitUser ==
  /\ now = 0
  /\ \E d \in Discounts : users = <<[User(1, 0) EXCEPT !.discount_amount = d]>>
  /\ sessions = <<Session(1, "t1", SessionLife, 0)>>
  /\ recordings = << >>
  /\ recCount = 0
  /\ tasks = << >>
  /\ coro = [s \in Slots |-> Idle]
  /\ resp = NoResp

NextUser ==
  \/ Tick
  \/ \E token \in Tokens : get_user_profile(token)
  \/ \E token \in Tokens, language \in LanguageBodies \cup supported_languages :
        update_user_language(token, language)
  \/ \E token \in Tokens : get_referral_info(token)

SpecUser == InitUser /\ [][NextUser]_vars

\* SpecList: two users, each with a session; user 1 creates recordings
\* hour after hour, past the page size, and both list theirs.  The clock
\* is read once a recording has been created in the hour.
CreatedNow == {r \in DOMAIN recordings : recordings[r].created_at = now}

MayCreateListed(token) ==
  /\ recCount < ListRecs
  /\ token = "t2" => recCount < OtherRecs
  /\ CreatedNow # {} => recCount < TieRecs

NextList ==
  \/ now < ListTime /\ CreatedNow # {} /\ TickHour
  \/ \E token \in Tokens, data \in CreateBodies :
        /\ data.title = "Lecture 1"
        /\ MayCreateListed(token)
        /\ create_recording(token, data)
  \/ \E token \in Tokens : get_recordings(token)
  \/ \E rid \in 1..ListDeletes : delete_recording("t1", rid)

SpecList == InitOwn /\ [][NextList]_vars

\* SpecDel: one user with a session and two recordings; get, update,
\* process and delete requests on ids that exist, that were deleted and
\* that were never given out
NextDel ==
  \/ \E data \in CreateBodies :
        /\ data.title = "Lecture 1"
        /\ recCount < DelRecs
        /\ create_recording("t1", data)
  \/ \E rid \in 1..DelRecs : get_recording("t1", rid)
  \/ \E rid \in 1..DelRecs : delete_recording("t1", rid)
  \/ \E rid \in 1..DelRecs :
        MayProcess("t1", rid, DelTasks) /\ ProcessFind("t1", rid, "full", Absent)
  \/ \E s \in Slots : ProcessSetStatus(s)
  \/ \E s \in Slots : ProcessDispatch(s)
  \/ \E k \in 1..Len(tasks) : TaskRun(k)
  \/ \E rid \in 1..DelRecs, update_data \in SeqBodies :
        UpdateFind("t1", rid, update_data)
  \/ \E s \in Slots : UpdateSet(s)

SpecDel == InitLife /\ [][NextDel]_vars

\* SpecGen: two users with a session each and two recordings of different
\* payloads, titles, tags, notes and owners; process requests in two modes
\* and two languages, one of them unsupported, and their tasks
GenModes == {"full", "summary"}
GenLanguages == {"it", "xx"}

NextGen ==
  \/ \E token \in Tokens, data \in CreateBodies :
        recCount < GenRecs /\ create_recording(token, data)
  \/ \E token \in Tokens, rid \in 1..GenRecs, type \in GenModes,
         language \in GenLanguages :
        /\ Accepted(token, rid)
        /\ MayProcess(token, rid, GenTasks)
        /\ ProcessFind(token, rid, type, language)
  \/ \E s \in Slots : ProcessSetStatus(s)
  \/ \E s \in Slots : ProcessDispatch(s)
  \/ \E k \in 1..Len(tasks) : TaskRun(k)

SpecGen == InitOwn /\ [][NextGen]_vars

\* SpecAuth: GET /auth/profile calls that overlap, from the empty store,
\* and GET /user/profile under the sessions they issue
NextAuth ==
  \/ \E token \in Tokens \cup {Absent} :
        /\ Len(sessions) + Cardinality(Suspended("auth_profile")) < AuthSessions
        /\ GetProfileFind(token)
  \/ \E s \in Slots : GetProfileInsertUser(s)
  \/ \E s \in Slots : GetProfileInsertSession(s)
  \/ \E token \in Tokens : get_user_profile(token)

SpecAuth == Init /\ [][NextAuth]_vars

\* ================================================================ claims
\* How the formulas read a step.  A request arrives in a step that either
\* answers it at once (resp' is its response and no coroutine moves) or
\* suspends it (a slot goes from idle to its coroutine).
AuthOps ==
  {"create", "list", "get", "process", "update", "delete",
   "user_profile", "language", "referral"}

AnsweredAtOnce(ops) == resp'.op \in ops /\ coro' = coro
SuspendedNow(s) == coro[s].pc = "idle" /\ coro'[s].pc # "idle"

\* the users the sessions carrying a token are bound to
Bearer(token) ==
  {sessions[i].user_id :
     i \in {j \in 1..Len(sessions) : sessions[j].session_token = token}}

\* C1: a get, update, delete or process request by a user who is not the
\* owner of the recording is answered 404, changes no recording, creates
\* no background task and starts no coroutine on the recording.
C1_OwnerOnly ==
  [][\A rid \in DOMAIN recordings :
       /\ ( /\ AnsweredAtOnce({"get", "update", "delete", "process"})
            /\ resp'.code # 401
            /\ resp'.rid = rid
            /\ Bearer(resp'.token) # {}
            /\ recordings[rid].user_id \notin Bearer(resp'.token) )
          => /\ resp'.code = 404
             /\ DOMAIN resp' = {"op", "token", "rid", "code"}
             /\ recordings' = recordings
             /\ tasks' = tasks
       /\ \A s \in Slots :
            SuspendedNow(s) /\ coro'[s].rid = rid
              => recordings[rid].user_id \in Bearer(coro'[s].token)
    ]_vars

\* C1 witness: user 1 has just been refused the recording of user 2 while
\* it was being processed
C1_Witness ==
  /\ resp.op = "process" /\ resp.code = 404
  /\ resp.rid \in DOMAIN recordings
  /\ recordings[resp.rid].user_id \notin Bearer(resp.token)
  /\ recordings[resp.rid].status = "processing"

C3_ExactlyOneTerminalWrite ==
  \A k \in 1..Len(tasks) :
    tasks[k].pc = "done" =>
      /\ Len(tasks[k].wrote) = 1
      /\ tasks[k].wrote[1] \in {"completed", "failed"}

\* C4: process_recording answers only after its update_one has set the
\* stored status to processing; the answer carries status processing; and
\* it is given when the task has only been created: the task has not run
\* and the step of the answer writes nothing to the store.
C4_ImmediateProcessing ==
  [][ /\ \A s \in Slots :
           (coro[s].pc # "idle" /\ coro[s].op = "process"
              /\ coro'[s].pc = "idle")
           => /\ coro[s].pc = "dispatch"
              /\ resp'.op = "process" /\ resp'.code = 200
              /\ resp'.status = "processing"
              /\ resp'.recording_id = coro[s].rid
              /\ Len(tasks') = Len(tasks) + 1
              /\ tasks'[Len(tasks')].pc = "created"
              /\ tasks'[Len(tasks')].recording_id = coro[s].rid
              /\ UNCHANGED store
      /\ \A s \in Slots :
           (coro'[s].pc = "dispatch" /\ coro[s].pc # "dispatch")
           => /\ coro[s].pc = "set_processing"
              /\ coro[s].rid \in DOMAIN recordings
                   => recordings'[coro[s].rid].status = "processing"
      /\ (resp'.op = "process" /\ resp'.code = 200)
           => \E s \in Slots : coro[s].pc = "dispatch" /\ coro'[s].pc = "idle"
    ]_vars

\* C4 witness: the answer has been given, the stored status is processing
\* and the task has not run yet
C4_Witness ==
  /\ resp.op = "process" /\ resp.code = 200 /\ resp.status = "processing"
  /\ tasks[Len(tasks)].pc = "created"
  /\ tasks[Len(tasks)].recording_id = resp.recording_id
  /\ resp.recording_id \in DOMAIN recordings
  /\ recordings[resp.recording_id].status = "processing"

\* the derived state of a recording
Derived(rec) ==
  [transcript |-> rec.transcript, summary |-> rec.summary, status |-> rec.status]

\* the text the content table holds for the request of task k
TextOf(k) ==
  LET l == IF tasks[k].language \in supported_languages
           THEN tasks[k].language ELSE "en"
  IN language_content[l][tasks[k].processing_type]

\* the derived state the request of task k alone would have left: what the
\* task wrote, on the document its request found
Alone(k) ==
  IF tasks[k].wrote = <<"failed">>
  THEN [transcript |-> tasks[k].found.transcript,
        summary |-> tasks[k].found.summary, status |-> "failed"]
  ELSE IF tasks[k].processing_type = "full"
  THEN [transcript |-> TextOf(k), summary |-> tasks[k].found.summary,
        status |-> "completed"]
  ELSE [transcript |-> tasks[k].found.transcript, summary |-> TextOf(k),
        status |-> "completed"]

\* tasks j and k are the two tasks of two overlapping process requests of
\* different modes on one recording, both have ended, and no other process
\* request was made
TwoOverlappingEnded(j, k) ==
  /\ Len(tasks) = 2 /\ j = 1 /\ k = 2
  /\ Suspended("process") = {}
  /\ tasks[j].pc = "done" /\ tasks[k].pc = "done"
  /\ tasks[j].recording_id = tasks[k].recording_id
  /\ tasks[j].recording_id \in DOMAIN recordings
  /\ j \in tasks[k].rivals
  /\ tasks[j].processing_type \in Modes /\ tasks[k].processing_type \in Modes
  /\ tasks[j].processing_type # tasks[k].processing_type

\* C5 as claimed (the code violates it): after two overlapping requests of
\* different modes the derived state is the one that one of the two
\* requests alone would have left.
C5_OneRequestsOutput ==
  \A j, k \in 1..Len(tasks) :
    TwoOverlappingEnded(j, k) =>
      Derived(recordings[tasks[j].recording_id]) \in {Alone(j), Alone(k)}

\* C5 as amended: last writer wins field by field.  Each of transcript,
\* summary and status is what one of the two requests alone would have
\* left in that field; a full-mode task that wrote leaves its text in
\* transcript, and when a summary or chapters task wrote, summary is the
\* text of one of them.
WroteText(k, modes) ==
  tasks[k].wrote = <<"completed">> /\ tasks[k].processing_type \in modes

C5_LastWriterPerField ==
  \A j, k \in 1..Len(tasks) :
    TwoOverlappingEnded(j, k) =>
      LET rec == Derived(recordings[tasks[j].recording_id]) IN
      /\ \A f \in {"transcript", "summary", "status"} :
           rec[f] \in {Alone(j)[f], Alone(k)[f]}
      /\ \A i \in {j, k} : WroteText(i, {"full"}) => rec.transcript = TextOf(i)
      /\ (\E i \in {j, k} : WroteText(i, {"summary", "chapters"}))
           => \E i \in {j, k} : /\ WroteText(i, {"summary", "chapters"})
                                /\ rec.summary = TextOf(i)

\* C5 witness: a full and a summary request overlapped, both tasks have
\* ended, and the recording holds both texts
C5_Witness ==
  /\ Len(tasks) = 2 /\ TwoOverlappingEnded(1, 2)
  /\ recordings[tasks[1].recording_id].transcript = "en:full"
  /\ recordings[tasks[1].recording_id].summary = "en:summary"
  /\ recordings[tasks[1].recording_id].status = "completed"

\* C6: a recording whose status is not uploaded never has status uploaded
\* again, whatever step is taken.
C6_NeverBackToUploaded ==
  [][\A rid \in DOMAIN recordings \cap DOMAIN recordings' :
       recordings[rid].status # "uploaded"
         => recordings'[rid].status # "uploaded"]_vars

\* C6 witness: an update carrying status uploaded has just been applied to
\* a recording that has been processed
C6_Witness ==
  /\ resp.op = "update" /\ resp.code = 200
  /\ "status" \in DOMAIN resp.update_data
  /\ "notes" \in DOMAIN resp.update_data
  /\ resp.update_data.status = "uploaded"
  /\ resp.rid \in DOMAIN recordings
  /\ recordings[resp.rid].notes = resp.update_data.notes
  /\ recordings[resp.rid].status = "completed"

\* C7: the recording create_recording returns is the document it stored
\* under a new id; it has status uploaded, no transcript and no summary,
\* the caller as owner, and the title, audio, tags, notes and duration of
\* the request.
C7_CreatedUploaded ==
  [][(resp'.op = "create" /\ resp'.code = 200) =>
       LET rec == resp'.body IN
       /\ rec.status = "uploaded"
       /\ rec.transcript = None /\ rec.summary = None
       /\ Bearer(resp'.token) = {rec.user_id}
       /\ rec.id \notin DOMAIN recordings
       /\ DOMAIN recordings' = DOMAIN recordings \cup {rec.id}
       /\ recordings'[rec.id] = rec
       /\ \A rid \in DOMAIN recordings : recordings'[rid] = recordings[rid]
       /\ \E data \in CreateBodies :
            /\ rec.title = data.title /\ rec.audio_data = data.audio_data
            /\ rec.tags = data.tags /\ rec.notes = data.notes
            /\ rec.duration = data.duration
    ]_vars

\* C7 witness: user 2 has just created a recording with tags, notes and a
\* duration
C7_Witness ==
  /\ resp.op = "create" /\ resp.code = 200
  /\ resp.body.user_id = 2 /\ resp.body.title = "Lecture 2"
  /\ resp.body.id \in DOMAIN recordings
  /\ recordings[resp.body.id].status = "uploaded"

\* the sessions carrying a token
Carrying(token) ==
  {i \in 1..Len(sessions) : sessions[i].session_token = token}

\* a request bearing the token that arrives in this step is refused with
\* 401 and nothing else: no data in the answer, no collection changed, no
\* task created, no coroutine started for it
Refused(token) ==
  /\ (AnsweredAtOnce(AuthOps) /\ resp'.token = token)
       => /\ resp'.code = 401
          /\ DOMAIN resp' = {"op", "token", "code", "detail"}
          /\ UNCHANGED <<users, sessions, recordings, recCount, tasks>>
  /\ \A s \in Slots :
       (SuspendedNow(s) /\ coro'[s].op \in AuthOps) => coro'[s].token # token

\* C8: a request on an authenticated endpoint bearing a token that no
\* session carries, or whose sessions have all expired, is refused.
C8_UnauthorizedChangesNothing ==
  [][\A token \in Tokens :
       ( \/ Carrying(token) = {}
         \/ \A i \in Carrying(token) : sessions[i].expires_at < now )
       => Refused(token)]_vars

\* C8 witness: a process request on an existing recording has just been
\* refused because the session of its token had expired
C8_Witness ==
  /\ resp.op = "process" /\ resp.code = 401
  /\ resp.detail = "Session expired"
  /\ DOMAIN recordings # {}
  /\ \E i \in Carrying(resp.token) : sessions[i].expires_at < now

\* C9 as claimed (the code violates it): a request bearing a token whose
\* sessions have all reached their expiry, now >= expires_at, is refused.
C9_RefusedFromExpiry ==
  [][\A token \in Tokens :
       ( /\ Carrying(token) # {}
         /\ \A i \in Carrying(token) : now >= sessions[i].expires_at )
       => Refused(token)]_vars

\* C9 as amended: a request is refused as expired when now is past the
\* expiry of the first session carrying its token, now > expires_at; at
\* now = expires_at, as before it, the session still authenticates the
\* request (it is not answered 401).
FirstCarrying(token) ==
  CHOOSE i \in Carrying(token) : \A j \in Carrying(token) : i <= j

C9_RefusedAfterExpiry ==
  [][\A token \in Tokens :
       Carrying(token) # {} =>
         LET session == sessions[FirstCarrying(token)] IN
         /\ now > session.expires_at
              => /\ Refused(token)
                 /\ (AnsweredAtOnce(AuthOps) /\ resp'.token = token)
                      => resp'.detail = "Session expired"
         /\ ( /\ now <= session.expires_at
              /\ \E i \in 1..Len(users) : users[i].id = session.user_id
              /\ AnsweredAtOnce(AuthOps) /\ resp'.token = token )
              => resp'.code # 401
    ]_vars

\* C9 witness: a request has just been served on the very day its session
\* expires
C9_Witness ==
  /\ resp.op = "get" /\ resp.code = 200
  /\ Carrying(resp.token) # {}
  /\ sessions[FirstCarrying(resp.token)].expires_at = now

\* C10: an update by the owner is acknowledged with 200, and when it is
\* applied every field of the recording outside title, tags and notes
\* keeps its value, whatever keys the body carries, and each of title,
\* tags and notes that the body carries takes the body's value.
C10_OnlyAllowedFields ==
  [][ /\ (resp'.op = "update" /\ resp'.code = 200
            /\ resp'.rid \in DOMAIN recordings)
          => LET rid == resp'.rid
                 data == resp'.update_data
             IN /\ rid \in DOMAIN recordings'
                /\ DOMAIN recordings'[rid] = DOMAIN recordings[rid]
                /\ \A f \in DOMAIN recordings[rid] :
                     recordings'[rid][f] =
                       IF f \in {"title", "tags", "notes"} \cap DOMAIN data
                       THEN data[f] ELSE recordings[rid][f]
      /\ ( /\ AnsweredAtOnce({"update"})
           /\ resp'.code # 401
           /\ resp'.rid \in DOMAIN recordings
           /\ recordings[resp'.rid].user_id \in Bearer(resp'.token) )
          => resp'.code = 200
    ]_vars

\* C10 witness: a body with notes and a forged status has been
\* acknowledged, the notes stored, the status of the recording kept
C10_Witness ==
  /\ resp.op = "update" /\ resp.code = 200
  /\ DOMAIN resp.update_data = {"notes", "status"}
  /\ resp.rid \in DOMAIN recordings
  /\ recordings[resp.rid].notes = "m"
  /\ recordings[resp.rid].status = "failed"

\* C11: the allowed keys of an update are applied in one step.  Whenever
\* the title, tags or notes of a recording change, the step is the write of
\* one update request on that recording and after it every allowed key of
\* that request's body has the body's value: no state between shows some
\* of them applied and others not, whatever other requests and background
\* tasks are under way.
C11_AllowedKeysAtOnce ==
  [][\A rid \in DOMAIN recordings \cap DOMAIN recordings' :
       (\E f \in allowed_fields : recordings'[rid][f] # recordings[rid][f])
         => /\ resp'.op = "update" /\ resp'.code = 200 /\ resp'.rid = rid
            /\ \A f \in allowed_fields \cap DOMAIN resp'.update_data :
                 recordings'[rid][f] = resp'.update_data[f]
            /\ \A f \in allowed_fields \ DOMAIN resp'.update_data :
                 recordings'[rid][f] = recordings[rid][f]
    ]_vars

\* C11 witness: an update of title, tags and notes has just been applied,
\* all three at once, while a background task on the recording has not run
C11_Witness ==
  /\ resp.op = "update" /\ resp.code = 200
  /\ DOMAIN resp.update_data = {"title", "tags", "notes"}
  /\ resp.rid \in DOMAIN recordings
  /\ \A f \in allowed_fields : recordings[resp.rid][f] = resp.update_data[f]
  /\ \E k \in 1..Len(tasks) :
       tasks[k].pc = "created" /\ tasks[k].recording_id = resp.rid

\* the field a mode writes its text to
Target(mode) == IF mode = "full" THEN "transcript" ELSE "summary"

\* this step sends a process request of the mode and language on an
\* existing recording of the caller, and the request is accepted: its
\* coroutine starts, with that mode and that language
AcceptedNow(mode, language) ==
  \E rid \in DOMAIN recordings :
    /\ ProcessFind("t1", rid, mode, language)
    /\ \E s \in Slots : /\ SuspendedNow(s)
                         /\ coro'[s].type = mode
                         /\ coro'[s].language = language

\* this step creates the task of the coroutine in slot s, for the mode of
\* the request and the language l, and answers that processing has started
\* in that language
DispatchedNow(s, l) ==
  /\ Len(tasks') = Len(tasks) + 1
  /\ tasks'[Len(tasks')].processing_type = coro[s].type
  /\ tasks'[Len(tasks')].language = l
  /\ resp'.op = "process" /\ resp'.code = 200
  /\ resp'.status = "processing" /\ resp'.language = l

\* the recording of task k, if it exists, is completed and its target field
\* holds the text of the content table for language l and the task's mode
Generated(k, l) ==
  LET rid == tasks[k].recording_id
      mode == tasks[k].processing_type
  IN rid \in DOMAIN recordings =>
       /\ recordings[rid].status = "completed"
       /\ recordings[rid][Target(mode)] = language_content[l][mode]
       /\ recordings[rid][Target(mode)] \notin {None, ""}

\* task k is the task of the last process request, it has ended, and no
\* other process request overlapped it
EndedAlone(k) ==
  /\ k = Len(tasks) /\ tasks[k].pc = "done"
  /\ tasks[k].rivals = {} /\ Suspended("process") = {}

C13_AbsentLanguageIsPreferred ==
  [][\A mode \in Modes, rid \in DOMAIN recordings, s \in Slots :
       (ProcessFind("t1", rid, mode, Absent) /\ SuspendedNow(s))
         => ChosenLanguage(coro'[s].language, coro'[s].preferred_language)
              = CurrentUser("t1").preferred_language
    ]_vars

Preferred(token) == CurrentUser(token).preferred_language

\* C15: setting a supported language L is acknowledged with L and stores L
\* as the caller's preferred language; the same call made again straight
\* after it is acknowledged with L too and leaves users, sessions and
\* recordings as the first call left them.
C15_SetLanguageIdempotent ==
  [][\A token \in Tokens, l \in supported_languages :
       (Authorized(token) /\ update_user_language(token, l))
         => /\ resp' = [op |-> "language", token |-> token, code |-> 200,
                        language |-> l]
            /\ Preferred(token)' = l
            /\ resp = resp' => UNCHANGED store
    ]_vars

\* C15 witness: Italian has just been set, and the same call made again
\* now is acknowledged the same way and changes nothing
C15_Witness ==
  /\ resp.op = "language" /\ resp.code = 200 /\ resp.language = "it"
  /\ Preferred(resp.token) = "it"
  /\ ENABLED (update_user_language(resp.token, "it") /\ UNCHANGED vars)

\* C16: setting a language code outside the supported set is answered 400
\* and leaves the preferred language and the rest of the store unchanged.
C16_UnsupportedLanguageRejected ==
  [][\A token \in Tokens, l \in LanguageBodies \ (supported_languages \cup {Absent}) :
       (Authorized(token) /\ update_user_language(token, l))
         => /\ resp'.op = "language" /\ resp'.code = 400
            /\ Preferred(token)' = Preferred(token)
            /\ UNCHANGED <<store, tasks, coro>>
    ]_vars

\* C16 witness: an unsupported code has just been refused for a caller
\* whose preferred language is Italian, and it still is
C16_Witness ==
  /\ resp.op = "language" /\ resp.code = 400
  /\ Preferred(resp.token) = "it"

\* C17: for the discount d of the caller, in cents, the monthly cost
\* returned is the larger of 200 - d and 100: 150 for d = 50, 100 for
\* d = 500, never below 100 and, for d >= 0, never above 200; the call
\* changes nothing stored.
C17_MonthlyCost ==
  [][(resp'.op = "referral" /\ resp'.code = 200) =>
       LET d == CurrentUser(resp'.token).discount_amount
           cost == resp'.monthly_cost
       IN /\ resp'.discount_amount = d
          /\ cost >= 200 - d /\ cost >= 100
          /\ cost \in {200 - d, 100}
          /\ d = 50 => cost = 150
          /\ d = 500 => cost = 100
          /\ d >= 0 => cost <= 200
          /\ UNCHANGED <<store, tasks, coro>>
    ]_vars

\* C17 witness: the floor has been applied to a discount of 5.00
C17_Witness ==
  /\ resp.op = "referral" /\ resp.code = 200
  /\ resp.discount_amount = 500 /\ resp.monthly_cost = 100

\* the recordings a user owns
OwnedIds(uid) == {r \in DOMAIN recordings : recordings[r].user_id = uid}

C19_DeleteThenNotFound ==
  [][ /\ (resp'.op = "delete" /\ resp'.code = 200)
           => /\ resp'.rid \in DOMAIN recordings
              /\ DOMAIN recordings' = DOMAIN recordings \ {resp'.rid}
              /\ \A r \in DOMAIN recordings' : recordings'[r] = recordings[r]
              /\ UNCHANGED <<users, sessions, recCount, tasks, coro>>
      /\ ( /\ AnsweredAtOnce({"delete"}) /\ resp'.code # 401
           /\ resp'.rid \in DOMAIN recordings
           /\ recordings[resp'.rid].user_id \in Bearer(resp'.token) )
           => resp'.code = 200
      /\ \A rid \in 1..DelRecs : rid \notin DOMAIN recordings =>
           /\ ( /\ AnsweredAtOnce({"get", "update", "process", "delete"})
                /\ resp'.code # 401 /\ resp'.rid = rid )
                => /\ resp'.code = 404
                   /\ UNCHANGED <<store, tasks>>
           /\ \A s \in Slots : SuspendedNow(s) => coro'[s].rid # rid
           /\ rid <= recCount => rid \notin DOMAIN recordings'
    ]_vars

\* C19 witness: a second delete of a deleted recording has just been
\* answered 404, and the caller's other recording is still there
C19_Witness ==
  /\ resp.op = "delete" /\ resp.code = 404
  /\ resp.rid <= recCount /\ resp.rid \notin DOMAIN recordings
  /\ \E r \in DOMAIN recordings : recordings[r].user_id \in Bearer(resp.token)

\* C20 (the claim itself; the code violates it): while a session that
\* GET /auth/profile issued for a token at time t is less than seven days
\* old, now < t + 7 days, a request bearing the token is not answered 401,
\* whatever else the store holds.
C20_IssuedSessionAuthenticates ==
  [][\A token \in Tokens :
       (\E i \in Carrying(token) :
          /\ sessions[i].created_at <= now
          /\ now < sessions[i].created_at + SessionLife)
       => ((AnsweredAtOnce(AuthOps) /\ resp'.token = token)
             => resp'.code # 401)
    ]_vars

\* the sessions carrying a token that get_current_user does not take for
\* expired
Active(token) == {i \in Carrying(token) : ~SessionExpired(sessions[i])}

\* C21 (the claim itself; the code violates it): a token is carried by at
\* most one session that has not expired.
C21_OneActiveSessionPerToken ==
  \A token \in Tokens : Cardinality(Active(token)) <= 1

Terminal == {"completed", "failed"}

\* the process requests for recording rid that take this step (the status
\* write of a request's coroutine, or a step of its task), each given as
\* the status its request found the recording in
SteppingRequests(rid) ==
  {coro[s].recording.status :
     s \in {t \in Slots : /\ coro[t].pc = "set_processing"
                          /\ coro[t].rid = rid /\ coro'[t] # coro[t]}}
  \cup
  {tasks[k].found.status :
     k \in {j \in 1..Len(tasks) : /\ tasks[j].recording_id = rid
                                  /\ tasks'[j].pc # tasks[j].pc}}

\* status, transcript or summary of recording rid changes in this step
DerivedChanges(rid) ==
  /\ rid \in DOMAIN recordings \cap DOMAIN recordings'
  /\ Derived(recordings'[rid]) # Derived(recordings[rid])

\* C22 as claimed (the code violates it): status, transcript and summary of
\* a completed or failed recording change only in a step of a process
\* request accepted after the recording became completed or failed; such a
\* request found the recording completed or failed.
C22_TerminalUntilNewRequest ==
  [][\A rid \in DOMAIN recordings :
       recordings[rid].status \in Terminal /\ DerivedChanges(rid)
         => \E found \in SteppingRequests(rid) : found \in Terminal]_vars

\* C22 as amended: status, transcript and summary of a completed or failed
\* recording change only in a step of a process request for that recording,
\* its status write or its task's write; the request may have been accepted
\* before the recording became completed or failed.
C22_TerminalUntilRequestStep ==
  [][\A rid \in DOMAIN recordings :
       recordings[rid].status \in Terminal /\ DerivedChanges(rid)
         => SteppingRequests(rid) # {}]_vars

\* C22 witness: the recording was completed by one task and has then been
\* changed by the task of a request that was accepted while it was still
\* uploaded; an update carrying a transcript has just been applied
C22_Witness ==
  /\ Len(tasks) = 2 /\ tasks[1].pc = "done" /\ tasks[2].pc = "done"
  /\ tasks[1].wrote = <<"completed">> /\ tasks[2].wrote = <<"failed">>
  /\ tasks[2].found.status = "uploaded"
  /\ resp.op = "update" /\ resp.code = 200
  /\ "transcript" \in DOMAIN resp.update_data
  /\ resp.rid \in DOMAIN recordings
  /\ recordings[resp.rid].status = "failed"
  /\ recordings[resp.rid].transcript = "en:full"

\* task k makes its completing write in this step
CompletingNow(k) ==
  /\ tasks[k].pc = "created" /\ tasks'[k].pc = "done"
  /\ tasks'[k].wrote = <<"completed">>

\* C23: the completing write of a task leaves the recording with status
\* completed and changes no field but status and the target field of the
\* task's mode (transcript for full, summary for summary and chapters):
\* the other derived field, title, tags, notes, audio, duration, owner and
\* creation time are as before.
C23_CompletingWriteFrame ==
  [][\A k \in 1..Len(tasks) :
       CompletingNow(k) /\ tasks[k].recording_id \in DOMAIN recordings
         => LET rid == tasks[k].recording_id
                written == {"status", Target(tasks[k].processing_type)}
            IN /\ DOMAIN recordings' = DOMAIN recordings
               /\ DOMAIN recordings'[rid] = DOMAIN recordings[rid]
               /\ recordings'[rid].status = "completed"
               /\ \A f \in DOMAIN recordings[rid] \ written :
                    recordings'[rid][f] = recordings[rid][f]]_vars

\* C23 witness: a summary task has just completed a recording that was
\* renamed and already held a transcript; title, notes, tags and transcript
\* are still there
C23_Witness ==
  /\ Len(tasks) = 2 /\ tasks[2].pc = "done"
  /\ tasks[2].wrote = <<"completed">>
  /\ tasks[2].processing_type = "summary"
  /\ tasks[2].recording_id \in DOMAIN recordings
  /\ LET rec == recordings[tasks[2].recording_id]
     IN /\ rec.status = "completed" /\ rec.summary = "en:summary"
        /\ rec.transcript = "en:full"
        /\ rec.title = "New" /\ rec.notes = "m" /\ rec.tags = <<"y">>
        /\ rec.audio_data = "a1"

\* the write of task k's try block raises in this step
RaisingNow(k) == tasks[k].pc = "created" /\ tasks'[k].pc = "except"

\* the except block of task k makes its write in this step
FailingNow(k) == tasks[k].pc = "except" /\ tasks'[k].pc = "done"

C25_CompletedHasText ==
  \A rid \in DOMAIN recordings :
    recordings[rid].status = "completed"
      => \/ recordings[rid].transcript \notin {None, ""}
         \/ recordings[rid].summary \notin {None, ""}

\* C25 witness: a recording completed by a chapters request alone: summary
\* holds the text and transcript is empty
C25_Witness ==
  \E rid \in DOMAIN recordings :
    /\ recordings[rid].status = "completed"
    /\ recordings[rid].transcript = None
    /\ recordings[rid].summary = "en:chapters"

\* C26: the preferred language of every stored user is one of en, it, es,
\* fr, de: a user is stored with en, and no request to set the language,
\* with a supported code, an unsupported one or none, stores another value.
C26_PreferredLanguageSupported ==
  /\ [](\A i \in 1..Len(users) :
          users[i].preferred_language \in supported_languages)
  /\ [][\A i \in 1..Len(users') :
          i > Len(users) => users'[i].preferred_language = "en"]_vars

\* C26 witness: a user created by GET /auth/profile has set Italian, and a
\* request with an unsupported code has just been refused
C26_Witness ==
  /\ Len(users) = 1 /\ users[1].preferred_language = "it"
  /\ users[1].email = DemoEmail
  /\ resp.op = "language" /\ resp.code = 400
  /\ Len(sessions) >= 1

\* this step answers a process request with status processing
AnsweredProcessing ==
  resp'.op = "process" /\ resp'.code = 200 /\ resp'.status = "processing"

\* C27: a step answers a process request with status processing exactly
\* when it creates a background task, and it creates one task, for the
\* recording of the request, leaving the tasks created before as they are;
\* so as many tasks are created as requests are accepted.  A request on a
\* recording of the caller is accepted whatever the recording's status,
\* processing included.  A request answered Unauthorized or NotFound
\* creates no task and leaves every recording as it is.
C27_OneTaskPerAcceptedRequest ==
  [][/\ AnsweredProcessing <=> Len(tasks') # Len(tasks)
     /\ AnsweredProcessing =>
          /\ Len(tasks') = Len(tasks) + 1
          /\ SubSeq(tasks', 1, Len(tasks)) = tasks
          /\ tasks'[Len(tasks')].recording_id = resp'.recording_id
          /\ tasks'[Len(tasks')].pc = "created"
          /\ \E s \in Slots : /\ coro[s].pc = "dispatch"
                               /\ coro[s].rid = resp'.recording_id
                               /\ coro'[s] = Idle
     /\ \A rid \in DOMAIN recordings, type \in TypeInputs :
          ProcessFind("t1", rid, type, Absent) =>
            \E s \in Slots : SuspendedNow(s) /\ coro'[s].rid = rid
     /\ (resp'.op = "process" /\ resp'.code \in {401, 404}) =>
          tasks' = tasks /\ recordings' = recordings /\ coro' = coro
    ]_vars

\* C27 witness: a second process request on a recording that was already
\* processing has just been answered, and its task stands beside the task
\* of the first, which is still running
C27_Witness ==
  /\ resp.op = "process" /\ resp.code = 200
  /\ Len(tasks) = 2
  /\ tasks[2].found.status = "processing"
  /\ tasks[1].pc = "created" /\ tasks[2].pc = "created"
  /\ tasks[1].recording_id = tasks[2].recording_id
  /\ tasks[2].rivals = {1}

\* the recordings this step creates, removes or changes
ChangedRecordings ==
  {rid \in DOMAIN recordings \cup DOMAIN recordings' :
     \/ rid \notin DOMAIN recordings \cap DOMAIN recordings'
     \/ recordings'[rid] # recordings[rid]}

\* the recordings this step concerns: the one a create or delete request
\* answered in this step names, the one of a process or update coroutine
\* that makes its write, the one of a background task that takes a step
ConcernedRecordings ==
  (IF resp'.op = "create" /\ resp'.code = 200 THEN {resp'.body.id} ELSE {})
  \cup (IF resp'.op = "delete" /\ resp'.code = 200 THEN {resp'.rid} ELSE {})
  \cup {coro[s].rid :
          s \in {t \in Slots : /\ coro[t].pc \in {"set_processing", "set_fields"}
                               /\ coro'[t] # coro[t]}}
  \cup {tasks[k].recording_id :
          k \in {j \in 1..Len(tasks) : tasks'[j].pc # tasks[j].pc}}

\* C28: a step concerns at most one recording, and a create, update,
\* process, delete or background-task step concerning a recording creates,
\* removes or changes no other recording and leaves every user and every
\* session unchanged.
C28_OneDocumentPerStep ==
  [][/\ Cardinality(ConcernedRecordings) <= 1
     /\ ChangedRecordings \subseteq ConcernedRecordings
     /\ ConcernedRecordings # {} => users' = users /\ sessions' = sessions
    ]_vars

\* C28 witness: of two recordings one has been completed by its task and
\* the other has just been renamed by an update; each shows only its own
\* change
C28_Witness ==
  /\ DOMAIN recordings = {1, 2}
  /\ resp.op = "update" /\ resp.code = 200 /\ resp.rid = 1
  /\ recordings[1].title = "New" /\ recordings[1].status = "uploaded"
  /\ recordings[2].title = "Lecture 1" /\ recordings[2].status = "completed"
  /\ recordings[2].transcript = "en:full" /\ recordings[1].transcript = None

\* task k has completed its recording
Completed(k) == tasks[k].pc = "done" /\ tasks[k].wrote = <<"completed">>

\* C29: the text a task generates is a function of the mode and the
\* language of its request alone: two tasks of the same mode and language
\* have written the same text to the same field, whatever the audio
\* payload, title, tags, notes, owner and earlier transcript and summary of
\* their recordings; and the text a task has written is the text its
\* completing step stores in the recording.
C29_TextOfModeAndLanguage ==
  /\ [](\A j, k \in 1..Len(tasks) :
          (/\ Completed(j) /\ Completed(k)
           /\ tasks[j].processing_type = tasks[k].processing_type
           /\ tasks[j].language = tasks[k].language)
            => /\ tasks[j].texts = tasks[k].texts
               /\ DOMAIN tasks[j].texts = {Target(tasks[j].processing_type)})
  /\ [][\A k \in 1..Len(tasks) :
          CompletingNow(k) /\ tasks[k].recording_id \in DOMAIN recordings'
            => \A f \in DOMAIN tasks'[k].texts :
                 recordings'[tasks[k].recording_id][f] = tasks'[k].texts[f]]_vars

\* C29 witness: two recordings of different owners, payloads, titles, tags
\* and notes were processed in full mode in Italian, and both hold the
\* same transcript
C29_Witness ==
  /\ DOMAIN recordings = {1, 2} /\ Len(tasks) = 2
  /\ Completed(1) /\ Completed(2)
  /\ tasks[1].recording_id # tasks[2].recording_id
  /\ tasks[1].processing_type = "full" /\ tasks[2].processing_type = "full"
  /\ tasks[1].language = "it" /\ tasks[2].language = "it"
  /\ recordings[1].user_id # recordings[2].user_id
  /\ recordings[1].audio_data # recordings[2].audio_data
  /\ recordings[1].title # recordings[2].title
  /\ recordings[1].notes # recordings[2].notes
  /\ recordings[1].transcript = "it:full"
  /\ recordings[2].transcript = "it:full"

Statuses == {"uploaded", "processing", "completed", "failed"}

\* the process requests for recording rid that have been accepted: each
\* was answered status=processing in the step that created its task
AcceptedFor(rid) == {k \in 1..Len(tasks) : tasks[k].recording_id = rid}

\* the process requests for recording rid that have made their status
\* write and have not been answered yet
WrittenFor(rid) ==
  {s \in Slots : coro[s].pc = "dispatch" /\ coro[s].rid = rid}

\* C30 as claimed (the code violates it): the status of a recording is one
\* of the four, and it is uploaded exactly when no process request for the
\* recording has been accepted.
C30_UploadedIffNeverAccepted ==
  \A rid \in DOMAIN recordings :
    /\ recordings[rid].status \in Statuses
    /\ recordings[rid].status = "uploaded" <=> AcceptedFor(rid) = {}

\* C30 as amended: the status of a recording is one of the four, and it is
\* uploaded exactly when no process request for the recording has made its
\* status write: no request has been accepted, and none stands between
\* its status write and its answer.
C30_UploadedIffNoStatusWrite ==
  \A rid \in DOMAIN recordings :
    /\ recordings[rid].status \in Statuses
    /\ recordings[rid].status = "uploaded"
         <=> AcceptedFor(rid) = {} /\ WrittenFor(rid) = {}

\* C30 witness: a recording is processing while its first process request
\* has not been answered; another, still before its status write, found
\* the recording uploaded
C30_Witness ==
  \E rid \in DOMAIN recordings :
    /\ recordings[rid].status = "processing"
    /\ AcceptedFor(rid) = {} /\ WrittenFor(rid) # {}
    /\ \E s \in Slots : /\ coro[s].pc = "set_processing"
                         /\ coro[s].rid = rid
                         /\ coro[s].recording.status = "uploaded"

\* the ids given to recordings that have been deleted since
Deleted == (1..recCount) \ DOMAIN recordings

\* C31: a deleted recording never reappears: whatever step follows the
\* delete (the write of an update that had passed its ownership check, the
\* status write of a process request that had found the recording, a step
\* of a background task for it, a later create), no recording has its id.
C31_DeletedStaysDeleted ==
  [][\A rid \in Deleted : rid \notin DOMAIN recordings']_vars

\* C31 witness: the recording was deleted while an update and a process
\* request on it were under way; the process request has been answered,
\* its task has made its completing write, the update has just been
\* answered, and the recording is gone
C31_Witness ==
  /\ Deleted = {1} /\ recordings = << >>
  /\ Len(tasks) = 1 /\ tasks[1].recording_id = 1
  /\ tasks[1].pc = "done" /\ tasks[1].wrote = <<"completed">>
  /\ resp.op = "update" /\ resp.code = 200 /\ resp.rid = 1
  /\ DOMAIN UpdateFields(resp.update_data) # {}

\* a document after a $set of the fields
SetOn(rec, fields) ==
  [f \in DOMAIN rec \cup DOMAIN fields |->
     IF f \in DOMAIN fields THEN fields[f] ELSE rec[f]]

\* an update coroutine in slot s and a task k are both about to write to
\* the recording rid, which is processing
BothPending(s, k, rid) ==
  /\ coro[s].pc = "set_fields" /\ coro[s].rid = rid
  /\ tasks[k].pc = "created" /\ tasks[k].recording_id = rid
  /\ tasks[k].processing_type \in Modes
  /\ rid \in DOMAIN recordings /\ recordings[rid].status = "processing"

\* C32: an update of a recording of the caller is never refused, whatever
\* the recording's status: it is answered 200 or its coroutine starts.  The
\* write of an update and the completing write of a task each are a $set of
\* their own fields, and where both are pending on a processing recording
\* the two orders leave the same recording, which has the title, tags and
\* notes of the update and the text and status of the task.
C32_UpdateCommutesWithCompletion ==
  /\ [][/\ \A rid \in DOMAIN recordings, update_data \in UpdateBodies :
            UpdateFind("t1", rid, update_data)
              => \/ resp'.op = "update" /\ resp'.code = 200
                 \/ \E s \in Slots : /\ SuspendedNow(s)
                                      /\ coro'[s].pc = "set_fields"
                                      /\ coro'[s].rid = rid
        /\ \A s \in Slots :
            (/\ coro[s].pc = "set_fields" /\ coro'[s] = Idle
             /\ coro[s].rid \in DOMAIN recordings)
              => recordings'[coro[s].rid]
                   = SetOn(recordings[coro[s].rid],
                           UpdateFields(coro[s].update_data))
        /\ \A k \in 1..Len(tasks) :
            (CompletingNow(k) /\ tasks[k].recording_id \in DOMAIN recordings)
              => recordings'[tasks[k].recording_id]
                   = SetOn(recordings[tasks[k].recording_id],
                           CompletedFields(tasks[k].processing_type,
                                           tasks[k].language))]_vars
  /\ [](\A s \in Slots, k \in 1..Len(tasks), rid \in DOMAIN recordings :
          BothPending(s, k, rid) =>
            LET U == UpdateFields(coro[s].update_data)
                C == CompletedFields(tasks[k].processing_type, tasks[k].language)
                final == SetOn(SetOn(recordings[rid], U), C)
            IN /\ final = SetOn(SetOn(recordings[rid], C), U)
               /\ \A f \in DOMAIN U : final[f] = U[f]
               /\ \A f \in DOMAIN C : final[f] = C[f])

\* C32 witness: an update was accepted while the recording was processing,
\* the chapters task completed first and the update has just made its
\* write: the recording holds the new title, notes and tags and the text
C32_Witness ==
  /\ Len(tasks) = 1 /\ Completed(1)
  /\ tasks[1].processing_type = "chapters"
  /\ resp.op = "update" /\ resp.code = 200
  /\ resp.rid = tasks[1].recording_id /\ resp.rid \in DOMAIN recordings
  /\ "title" \in DOMAIN resp.update_data
  /\ LET rec == recordings[resp.rid]
     IN /\ rec.title = "New" /\ rec.notes = "m" /\ rec.tags = <<"y">>
        /\ rec.summary = "en:chapters" /\ rec.status = "completed"

\* C33: the mode and the language of a process request are fixed when it is
\* accepted.  The step that answers the request creates its task with the
\* mode of the request and the language of the answer; no later step, a
\* change of the preferred language included, changes the mode or the
\* language of a task; and the text the task writes is the table's entry
\* for that mode and language (English for an unsupported one).
C33_RequestFixedAtAcceptance ==
  [][/\ \A k \in 1..Len(tasks) :
          /\ tasks'[k].language = tasks[k].language
          /\ tasks'[k].processing_type = tasks[k].processing_type
          /\ CompletingNow(k) =>
               tasks'[k].texts =
                 [f \in {Target(tasks[k].processing_type)} |-> TextOf(k)]
     /\ \A s \in Slots :
          (coro[s].pc = "dispatch" /\ coro'[s] = Idle) =>
            /\ DispatchedNow(s, resp'.language)
            /\ resp'.type = coro[s].type
            /\ resp'.language =
                 ChosenLanguage(coro[s].language, coro[s].preferred_language)
    ]_vars

\* C33 witness: a task created for English has made its completing write
\* after the caller's preferred language became Italian, and the text in
\* the recording is the English one
C33_Witness ==
  \E k \in 1..Len(tasks) :
    /\ Completed(k) /\ tasks[k].language = "en"
    /\ tasks[k].processing_type = "summary"
    /\ Preferred("t1") = "it"
    /\ tasks[k].recording_id \in DOMAIN recordings
    /\ recordings[tasks[k].recording_id].summary = "en:summary"

\* C34 (the claim itself; the code violates it): the id in the body of a
\* GET /auth/profile answer is the id of the user the session issued by
\* the call is bound to, which is the id GET /user/profile returns for the
\* token.
C34_ProfileIdIsSessionUser ==
  (resp.op = "auth_profile" /\ resp.code = 200) =>
    /\ resp.id = sessions[Len(sessions)].user_id
    /\ Authorized(resp.token) => resp.id = CurrentUser(resp.token).id

\* C35 (the claim itself; the code violates it): no two user records have
\* the same email, and every session is bound to a user that exists.
C35_OneUserPerEmail ==
  /\ \A i, j \in 1..Len(users) : users[i].email = users[j].email => i = j
  /\ \A i \in 1..Len(sessions) : FindUserById(sessions[i].user_id) # 0

Immutable == {"id", "user_id", "audio_data", "duration", "created_at"}

\* C36: id, owner, audio payload, duration and creation time of a
\* recording are, after every step, what they were before it, for as long
\* as the recording exists; and they are what the create request gave.
C36_ImmutableFields ==
  /\ [][\A rid \in DOMAIN recordings \cap DOMAIN recordings' :
          \A f \in Immutable : recordings'[rid][f] = recordings[rid][f]]_vars
  /\ [](\A rid \in DOMAIN recordings :
          /\ recordings[rid].id = rid
          /\ recordings[rid].user_id = CurrentUser("t1").id
          /\ recordings[rid].audio_data = "a1"
          /\ recordings[rid].duration = None)

\* C36 witness: an update carrying another owner has just been answered
\* for a recording that was processed twice, once to completion and once
\* to failure; the recording has the owner and payload it was created with
C36_Witness ==
  /\ resp.op = "update" /\ resp.code = 200
  /\ "user_id" \in DOMAIN resp.update_data
  /\ resp.rid \in DOMAIN recordings
  /\ Len(tasks) = 2 /\ tasks[1].wrote = <<"completed">>
  /\ tasks[2].wrote = <<"failed">>
  /\ recordings[resp.rid].user_id = 1
  /\ recordings[resp.rid].audio_data = "a1"
  /\ recordings[resp.rid].created_at = 0

\* C37: a request to set the language whose body has no language key is
\* acknowledged with en and leaves en as the caller's preferred language,
\* whatever it was before; nothing else stored changes.
C37_MissingKeyMeansEnglish ==
  [][\A token \in Tokens :
       (Authorized(token) /\ update_user_language(token, Absent))
         => /\ resp'.op = "language" /\ resp'.code = 200
            /\ resp'.language = "en"
            /\ Preferred(token)' = "en"
            /\ Len(users') = Len(users)
            /\ \A i \in 1..Len(users) :
                 users'[i] = [users[i] EXCEPT !.preferred_language =
                                                  users'[i].preferred_language]
            /\ UNCHANGED <<sessions, recordings, recCount, tasks, coro>>
    ]_vars

\* C37 witness: a request has just been acknowledged with en, and en is the
\* preferred language of the caller, whose discount is not the default
C37_Witness ==
  /\ resp.op = "language" /\ resp.code = 200 /\ resp.language = "en"
  /\ Preferred(resp.token) = "en"
  /\ CurrentUser(resp.token).discount_amount = 50

\* C38: when GET /auth/profile calls do not overlap there is one user, the
\* one with the demo email, and every session issued is bound to it; so
\* every recording, under whichever session it was created, is returned by
\* GET /recordings/{id} and listed by GET /recordings under every token
\* that authenticates.
C38_OneSharedUser ==
  /\ [](/\ Len(users) <= 1
        /\ \A i \in 1..Len(users) : users[i].email = DemoEmail
        /\ \A i \in 1..Len(sessions) :
             Len(users) = 1 /\ sessions[i].user_id = users[1].id)
  /\ [][\A token \in Tokens, rid \in DOMAIN recordings :
          /\ (Authorized(token) /\ get_recording(token, rid))
               => resp'.code = 200 /\ resp'.body = recordings[rid]
          /\ (Authorized(token) /\ get_recordings(token))
               => /\ resp'.code = 200
                  /\ \E i \in 1..Len(resp'.body) :
                       resp'.body[i] = recordings[rid]]_vars

\* C38 witness: a recording created under t1, before any session carried
\* t2, has just been returned under t2
C38_Witness ==
  /\ Len(sessions) = 2
  /\ sessions[1].session_token = "t1" /\ sessions[2].session_token = "t2"
  /\ \E rid \in DOMAIN recordings :
       /\ recordings[rid].created_at < sessions[2].created_at
       /\ resp.op = "get" /\ resp.code = 200
       /\ resp.token = "t2" /\ resp.rid = rid

====
